---- MODULE Spec2Model ----
(***************************************************************************)
(* Model of robot_sim.RobotSimulator: a robot moving right on the line     *)
(* 0..max_pos, its Monte Carlo estimator and its exact posterior.          *)
(*                                                                         *)
(* Probabilities are exact fractions.  A probability p of move_probs or of  *)
(* the sensor model is the integer p*Den.  A uniform draw u of rng.random() *)
(* is the integer u*2*Den in 0..2*Den-1, i.e. u ranges over the multiples   *)
(* of 1/(2*Den) in [0,1): the probabilities themselves and the points half  *)
(* way between them.  With Den a power of two every float sum and product   *)
(* the code forms on such inputs is exact, so the integers are the code's   *)
(* values.                                                                  *)
(***************************************************************************)
EXTENDS Integers, Sequences, FiniteSets, Bags, TLC

\* ---------------------------------------------------------------- bounds
MaxPos == 3        \* max_pos ranges over 0..MaxPos
MaxDist == 2       \* movement distances range over 0..MaxDist
Den == 2           \* probabilities are multiples of 1/Den, draws of 1/(2*Den)
MaxSteps == 3      \* n_steps ranges over -1..MaxSteps in run_single, compute_exact_posterior
MaxSimSteps == 2   \* n_steps ranges over -1..MaxSimSteps in simulate
MaxTrials == 2     \* trials ranges over 0..MaxTrials
MaxSimWork == 4    \* simulate runs at most MaxSimWork loop iterations, all trials together

VARIABLES
  max_pos, move_probs, p_correct_wall, p_correct_window, _moves, _cum,
  rng,            \* the shared random source: how many values it has handed out
  drew,           \* which calls of the source (1st, 2nd, ...) the last step made
  op, n_steps, trials,                    \* the call in progress, its arguments
  pos, trace, step, intended,             \* run_single's locals
  counts, trial,                          \* simulate's locals
  T, dist, scale, it,                     \* compute_exact_posterior's locals
  pc, ret, err,
  other           \* a second simulator, same movement model, own sensor model

cfg == <<max_pos, move_probs, p_correct_wall, p_correct_window, _moves, _cum>>
args == <<op, n_steps, trials>>
runv == <<pos, trace, step, intended>>
simv == <<counts, trial>>
exv == <<T, dist, scale, it>>
vars == <<cfg, rng, drew, args, runv, simv, exv, pc, ret, err, other>>

\* ---------------------------------------------------------------- helpers
Min(a, b) == IF a <= b THEN a ELSE b

RECURSIVE SumOver(_, _)
SumOver(f, S) ==
  IF S = {} THEN 0
  ELSE LET x == CHOOSE y \in S : TRUE IN f[x] + SumOver(f, S \ {x})

RECURSIVE Pow(_, _)
Pow(b, e) == IF e <= 0 THEN 1 ELSE b * Pow(b, e - 1)

\* sorted(d): the keys of a dict, ascending
RECURSIVE sorted(_)
sorted(S) ==
  IF S = {} THEN <<>>
  ELSE LET m == CHOOSE x \in S : \A y \in S : x <= y
       IN <<m>> \o sorted(S \ {m})

Uniform == 0 .. (2 * Den - 1)
\* u <= p, for a draw u and a probability p
le(u, p) == u <= 2 * p
Probs == 0 .. Den
\* sensor correctness probabilities: 0.0 (right only on a draw of 0.0) and 1.0
SensorProbs == {0, Den}
\* movement distributions: non-negative distances, probabilities >= 0 summing to 1
MoveDists ==
  UNION { { f \in [S -> Probs] : SumOver(f, S) = Den }
          : S \in (SUBSET (0 .. MaxDist)) \ {{}} }

\* ---------------------------------------------------------------- sampler
\* A random source during one loop iteration: w are the values it is about to
\* hand out, k is how many of them it has handed out.  A call returns the
\* value, at: which call of the iteration it was, and the source after it.
random(r) == [val |-> r.w[r.k + 1], at |-> r.k + 1, rng |-> [r EXCEPT !.k = @ + 1]]

_build_cdf(probs_dict) ==
  LET moves == sorted(DOMAIN probs_dict)
      cum == [i \in 1 .. Len(moves) |->
                SumOver([j \in 1 .. i |-> probs_dict[moves[j]]], 1 .. i)]
  IN [moves |-> moves, cum |-> cum]

_sample_move(r) ==
  LET d == random(r)
      u == d.val
      hit == { i \in 1 .. Len(_moves) : le(u, _cum[i]) }
  IN [val |-> IF hit # {}
              THEN _moves[CHOOSE i \in hit : \A j \in hit : i <= j]
              ELSE _moves[Len(_moves)],
      at |-> d.at,
      rng |-> d.rng]

true_label_at(p) == IF p % 2 = 0 THEN "window" ELSE "wall"

\* variant: a sensor that is always right answers without drawing
perceive_label_lazy(true_label, r, pcw, pcwin) ==
  LET d == random(r) IN
  IF true_label = "wall"
  THEN IF pcw >= Den THEN [val |-> "wall", at |-> 0, rng |-> r]
       ELSE [val |-> IF le(d.val, pcw) THEN "wall" ELSE "window",
             at |-> d.at, rng |-> d.rng]
  ELSE IF pcwin >= Den THEN [val |-> "window", at |-> 0, rng |-> r]
       ELSE [val |-> IF le(d.val, pcwin) THEN "window" ELSE "wall",
             at |-> d.at, rng |-> d.rng]

perceive_label(true_label, r, pcw, pcwin) ==
  LET d == random(r) IN
  IF true_label = "wall"
  THEN [val |-> IF le(d.val, pcw) THEN "wall" ELSE "window",
        at |-> d.at, rng |-> d.rng]
  ELSE [val |-> IF le(d.val, pcwin) THEN "window" ELSE "wall",
        at |-> d.at, rng |-> d.rng]

\* ---------------------------------------------------------------- run_single
\* variant: no boundary
clamp_unbounded(p, d) == p + d

\* variant: the line wraps around at the boundary
clamp_wrap(p, d) == (p + d) % (max_pos + 1)

clamp(p, d) == Min(p + d, max_pos)

\* variant: the robot stops before a square it perceives as a wall
LoopBody_blocked(p, tr, r, pcw, pcwin) ==
  LET mv == _sample_move(r)
      target == clamp(p, mv.val)
      tl == true_label_at(target)
      pl == perceive_label(tl, mv.rng, pcw, pcwin)
  IN [pos |-> IF pl.val = "wall" THEN p ELSE target,
      trace |-> Append(tr, <<target, tl, pl.val>>),
      intended |-> mv.val,
      move_draw |-> mv.at,
      sense_draw |-> pl.at,
      rng |-> pl.rng]

\* one iteration of run_single's loop, from position p with trace tr
LoopBody(p, tr, r, pcw, pcwin) ==
  LET mv == _sample_move(r)
      target == clamp(p, mv.val)
      tl == true_label_at(target)
      pl == perceive_label(tl, mv.rng, pcw, pcwin)
  IN [pos |-> target,
      trace |-> Append(tr, <<target, tl, pl.val>>),
      intended |-> mv.val,
      move_draw |-> mv.at,
      sense_draw |-> pl.at,
      rng |-> pl.rng]

\* the values the source may hand out during one loop iteration
Window == [1 .. 2 -> Uniform]

NoOther == [used |-> FALSE]
NoRet == [kind |-> "none"]

\* the second simulator's loop iteration.  Both sources are seeded alike, so
\* while they have handed out equally many values they hand out the same w.
OtherStep(w) ==
  IF other.used
  THEN LET b == LoopBody(other.pos, other.trace, [w |-> w, k |-> 0],
                         other.p_correct_wall, other.p_correct_window)
       IN [other EXCEPT !.pos = b.pos, !.trace = b.trace,
                        !.rng = @ + b.rng.k]
  ELSE other

\* one iteration of the loop of run_single, the source handing out w
StepWith(w) ==
  /\ pc = "loop"
  /\ step < n_steps
  /\ LET b == LoopBody(pos, trace, [w |-> w, k |-> 0],
                       p_correct_wall, p_correct_window)
     IN /\ pos' = b.pos
        /\ trace' = b.trace
        /\ intended' = b.intended
        /\ rng' = rng + b.rng.k
        /\ drew' = [move |-> rng + b.move_draw, sense |-> rng + b.sense_draw]
  /\ step' = step + 1
  /\ other' = OtherStep(w)
  /\ UNCHANGED <<cfg, args, simv, exv, pc, ret, err>>

Step == \E w \in Window : StepWith(w)

\* run_single returns: the loop is over (at once when n_steps <= 0)
RunReturn ==
  /\ pc = "loop"
  /\ op = "run_single"
  /\ step >= n_steps
  /\ \E return_trace \in BOOLEAN :
       ret' = IF return_trace
              THEN [kind |-> "pos_trace", pos |-> pos, trace |-> trace]
              ELSE [kind |-> "pos", pos |-> pos]
  /\ pc' = "done"
  /\ UNCHANGED <<cfg, rng, drew, args, runv, simv, exv, err, other>>

\* ---------------------------------------------------------------- simulate
\* variant: counts[final] = 1
tally_set(c, final) == IF BagIn(final, c) THEN c ELSE c (+) SetToBag({final})

\* counts[final] += 1 on a collections.Counter
tally(c, final) == c (+) SetToBag({final})

\* {pos: counts[pos]/trials for pos in range(max_pos+1)}; a quotient is the
\* pair <<numerator, denominator>>
probs_of(c, n) == [p \in 0 .. max_pos |-> <<CopiesIn(p, c), n>>]

\* the head of simulate's loop: another trial, a fresh run_single
SimCall ==
  /\ pc = "sim"
  /\ trial < trials
  /\ pos' = 0 /\ trace' = <<>> /\ step' = 0 /\ intended' = 0
  /\ pc' = "loop"
  /\ other' = IF other.used
              THEN [other EXCEPT !.pos = 0, !.trace = <<>>]
              ELSE other
  /\ UNCHANGED <<cfg, rng, drew, args, simv, exv, ret, err>>

\* run_single returns to simulate, which tallies the final position; the
\* locals of run_single are gone
SimTally ==
  /\ pc = "loop"
  /\ op = "simulate"
  /\ step >= n_steps
  /\ counts' = tally(counts, pos)
  /\ trial' = trial + 1
  /\ pos' = 0 /\ trace' = <<>> /\ step' = 0 /\ intended' = 0
  /\ pc' = "sim"
  /\ other' = IF other.used
              THEN [other EXCEPT !.counts = tally(@, other.pos),
                                 !.pos = 0, !.trace = <<>>]
              ELSE other
  /\ UNCHANGED <<cfg, rng, drew, args, exv, ret, err>>

\* the trials are over: the division by trials, which raises when trials = 0
SimReturn ==
  /\ pc = "sim"
  /\ trial >= trials
  /\ IF trials = 0
     THEN /\ err' = "ZeroDivisionError"
          /\ UNCHANGED <<ret, other>>
     ELSE /\ ret' = [kind |-> "probs", probs |-> probs_of(counts, trials)]
          /\ other' = IF other.used
                      THEN [other EXCEPT
                              !.ret = [kind |-> "probs",
                                       probs |-> probs_of(other.counts, trials)]]
                      ELSE other
          /\ err' = err
  /\ pc' = "done"
  /\ UNCHANGED <<cfg, rng, drew, args, runv, simv, exv>>

\* ---------------------------------------------------------------- compute_exact_posterior
\* variant: no boundary, the mass of a move past max_pos is dropped
T_target_unbounded(p, m) == p + m

\* the destination of a move of m from position p
T_target(p, m) == Min(p + m, max_pos)

\* variant: T[pos][target] = pm, the last move into s overwriting the others
BuildT_assign ==
  [p \in 0 .. max_pos |->
     [s \in 0 .. max_pos |->
        LET into == { m \in DOMAIN move_probs : T_target(p, m) = s }
        IN IF into = {} THEN 0
           ELSE move_probs[CHOOSE m \in into : \A x \in into : x <= m]]]

\* T[pos][s]: the probabilities pm of the moves m arriving at s, added up
BuildT ==
  [p \in 0 .. max_pos |->
     [s \in 0 .. max_pos |->
        LET into == { m \in DOMAIN move_probs : T_target(p, m) = s }
        IN SumOver(move_probs, into)]]

\* dist = [0.0] * (max_pos+1); dist[0] = 1.0
PointMass == [p \in 0 .. max_pos |-> IF p = 0 THEN 1 ELSE 0]

\* one iteration of the dynamic programme; positions without mass are skipped
DPStep(d, TT) ==
  [s \in 0 .. max_pos |->
     LET from == { p \in 0 .. max_pos : d[p] # 0 }
     IN SumOver([p \in from |-> d[p] * TT[p][s]], from)]

\* dist after n iterations, in units of 1/Den^n
RECURSIVE dp(_)
dp(n) == IF n <= 0 THEN PointMass ELSE DPStep(dp(n - 1), BuildT)

\* {pos: dist[pos]}: each probability the quotient <<dist[pos], Den^n>>
compute_exact_posterior(n) ==
  [p \in 0 .. max_pos |-> <<dp(n)[p], Pow(Den, n)>>]

ExactBuild ==
  /\ pc = "build"
  /\ T' = BuildT
  /\ dist' = PointMass
  /\ scale' = 1
  /\ it' = 0
  /\ pc' = "dp"
  /\ UNCHANGED <<cfg, rng, drew, args, runv, simv, ret, err, other>>

DPIter ==
  /\ pc = "dp"
  /\ it < n_steps
  /\ dist' = DPStep(dist, T)
  /\ scale' = scale * Den
  /\ it' = it + 1
  /\ UNCHANGED <<cfg, rng, drew, args, runv, simv, T, pc, ret, err, other>>

ExactReturn ==
  /\ pc = "dp"
  /\ it >= n_steps
  /\ ret' = [kind |-> "probs",
             probs |-> [p \in 0 .. max_pos |-> <<dist[p], scale>>]]
  /\ pc' = "done"
  /\ UNCHANGED <<cfg, rng, drew, args, runv, simv, exv, err, other>>

\* ---------------------------------------------------------------- initial states
Constructed ==
  /\ max_pos \in 0 .. MaxPos
  /\ move_probs \in MoveDists
  /\ p_correct_wall \in SensorProbs
  /\ p_correct_window \in SensorProbs
  /\ _moves = _build_cdf(move_probs).moves
  /\ _cum = _build_cdf(move_probs).cum
  /\ rng = 0
  /\ drew = [move |-> 0, sense |-> 0]

Idle ==
  /\ pos = 0 /\ trace = <<>> /\ step = 0 /\ intended = 0
  /\ counts = EmptyBag /\ trial = 0
  /\ T = <<>> /\ dist = <<>> /\ scale = 1 /\ it = 0
  /\ ret = NoRet /\ err = "none"

\* run_single(n_steps)
InitRun ==
  /\ Constructed
  /\ Idle
  /\ op = "run_single"
  /\ n_steps \in -1 .. MaxSteps
  /\ trials = 1
  /\ pc = "loop"
  /\ other = NoOther

NextRun == Step \/ RunReturn

SpecRun == InitRun /\ [][NextRun]_vars

\* simulate(n_steps, trials)
InitSim ==
  /\ Constructed
  /\ Idle
  /\ op = "simulate"
  /\ n_steps \in -1 .. MaxSimSteps
  /\ trials \in 0 .. MaxTrials
  /\ n_steps * trials <= MaxSimWork
  /\ pc = "sim"
  /\ other = NoOther

NextSim == SimCall \/ Step \/ SimTally \/ SimReturn

SpecSim == InitSim /\ [][NextSim]_vars

\* compute_exact_posterior(n_steps)
InitExact ==
  /\ Constructed
  /\ Idle
  /\ op = "compute_exact_posterior"
  /\ n_steps \in -1 .. MaxSteps
  /\ trials = 1
  /\ pc = "build"
  /\ other = NoOther

NextExact == ExactBuild \/ DPIter \/ ExactReturn

SpecExact == InitExact /\ [][NextExact]_vars

\* simulate(n_steps, trials) on two simulators that differ in the sensor model
\* only, their sources seeded alike.  The first has the constructor's default
\* sensor model (1.0, 1.0), the second any: two models that each agree with
\* the default one agree with each other.
InitPair ==
  /\ Constructed
  /\ p_correct_wall = Den
  /\ p_correct_window = Den
  /\ Idle
  /\ op = "simulate"
  /\ n_steps \in -1 .. MaxSimSteps
  /\ trials \in 0 .. MaxTrials
  /\ n_steps * trials <= MaxSimWork
  /\ pc = "sim"
  /\ \E a \in SensorProbs, b \in SensorProbs :
       other = [used |-> TRUE, p_correct_wall |-> a, p_correct_window |-> b,
                rng |-> 0, pos |-> 0, trace |-> <<>>, counts |-> EmptyBag,
                ret |-> NoRet]

SpecPair == InitPair /\ [][NextSim]_vars

\* ---------------------------------------------------------------- properties
Positions(tr) == [i \in 1 .. Len(tr) |-> tr[i][1]]
Perceived(tr) == [i \in 1 .. Len(tr) |-> tr[i][3]]
NumSum(pr) == SumOver([p \in DOMAIN pr |-> pr[p][1]], DOMAIN pr)
\* two quotients <<numerator, denominator>> are the same number
SameNumber(x, y) == x[1] * y[2] = y[1] * x[2]
\* C1: in run_single the position starts at 0 and after every step is an
\* integer in [0, max_pos]; so is every position of the trace and the
\* position returned.
C1_PositionInRange ==
  /\ pos \in 0 .. max_pos
  /\ step = 0 => pos = 0
  /\ \A i \in 1 .. Len(trace) : trace[i][1] \in 0 .. max_pos
  /\ pc = "done" => /\ ret.pos \in 0 .. max_pos
                    /\ ret.pos = pos
                    /\ ret.kind = "pos_trace" =>
                         \A i \in 1 .. Len(ret.trace) : ret.trace[i][1] \in 0 .. max_pos

\* a run that returned after a step whose distance would have passed max_pos
C1_Witness ==
  /\ pc = "done"
  /\ ret.kind = "pos_trace"
  /\ Len(trace) >= 2
  /\ trace[Len(trace) - 1][1] + intended > max_pos
  /\ pos = max_pos

\* C5: each step of run_single moves the robot from p to min(p + d, max_pos),
\* d the distance sampled for the step; the position never decreases, and at
\* max_pos it stays at max_pos.
C5_ClampLaw ==
  [][step' = step + 1 =>
       /\ intended' \in DOMAIN move_probs
       /\ pos' = Min(pos + intended', max_pos)
       /\ pos' >= pos
       /\ (pos = max_pos => pos' = max_pos)
       /\ trace'[Len(trace')][1] = pos']_vars

\* max_pos = 3 with {2: 1.0}: 0 -> 2 -> 3 -> 3
C5_Witness ==
  /\ max_pos = 3
  /\ DOMAIN move_probs = {2}
  /\ step = 3
  /\ Positions(trace) = <<2, 3, 3>>
  /\ pos = 3

\* C7: a negative number of steps is rejected with an InvalidArgument error
\* and nothing is returned; zero steps is valid and returns position 0.
C7_NegativeStepsRejected ==
  /\ (pc = "done" /\ n_steps < 0) => (err = "InvalidArgument" /\ ret = NoRet)
  /\ (pc = "done" /\ n_steps = 0) => (err = "none" /\ ret.pos = 0)

\* the positions run_single can be at after k steps, over all draws
RECURSIVE Reachable(_)
Reachable(k) ==
  IF k <= 0 THEN {0}
  ELSE { LoopBody(p, <<>>, [w |-> w, k |-> 0],
                  p_correct_wall, p_correct_window).pos :
           p \in Reachable(k - 1), w \in Window }

\* C10: run_single can be at a position after k steps, for some draws, if and
\* only if the exact distribution after k iterations gives it a strictly
\* positive probability (_sample_move never returns a distance of
\* probability 0).
C10_ReachedIffPositiveMass ==
  /\ pos \in Reachable(step)
  /\ \A p \in 0 .. max_pos : p \in Reachable(step) <=> dp(step)[p] > 0

\* the half of C10 that the code does satisfy: a position of positive exact
\* probability is one run_single can be at
PositiveMassIsReachable ==
  \A p \in 0 .. max_pos : dp(step)[p] > 0 => p \in Reachable(step)

\* C3: compute_exact_posterior returns a mapping over exactly 0..max_pos whose
\* entries are non-negative and sum to 1; so does dist after each iteration,
\* from the point mass at 0 on, and each row of T sums to 1.
C3_ExactIsDistribution ==
  /\ pc \in {"dp", "done"} =>
       /\ DOMAIN dist = 0 .. max_pos
       /\ \A p \in 0 .. max_pos : dist[p] >= 0
       /\ SumOver(dist, 0 .. max_pos) = scale
       /\ scale = Pow(Den, it)
       /\ it = 0 => dist = PointMass
       /\ \A p \in 0 .. max_pos :
            /\ DOMAIN T[p] = 0 .. max_pos
            /\ \A q \in 0 .. max_pos : T[p][q] >= 0
            /\ SumOver(T[p], 0 .. max_pos) = Den
  /\ pc = "done" =>
       /\ ret.kind = "probs"
       /\ DOMAIN ret.probs = 0 .. max_pos
       /\ \A p \in 0 .. max_pos : ret.probs[p][1] >= 0 /\ ret.probs[p][2] = scale
       /\ NumSum(ret.probs) = scale
       /\ ret.probs = compute_exact_posterior(n_steps)

\* a posterior returned after two iterations or more, spread over several
\* positions, two moves of positive probability clamping to one destination
C3_Witness ==
  /\ pc = "done"
  /\ it >= 2
  /\ Cardinality({ p \in 0 .. max_pos : dist[p] > 0 }) >= 2
  /\ \E p \in 0 .. max_pos :
       Cardinality({ m \in DOMAIN move_probs :
                       move_probs[m] > 0 /\ p + m >= max_pos }) >= 2

\* C4: with a single distance m of probability 1, n_steps >= 0 and trials >= 1,
\* simulate and compute_exact_posterior return the same distribution whatever
\* the draws: 1 at min(n_steps*m, max_pos), 0 elsewhere.
C4_DeterministicAgree ==
  (pc = "done" /\ Cardinality(DOMAIN move_probs) = 1 /\ trials >= 1 /\ n_steps >= 0) =>
    LET m == CHOOSE x \in DOMAIN move_probs : TRUE
        target == Min(n_steps * m, max_pos)
        exact == compute_exact_posterior(n_steps)
    IN /\ ret.kind = "probs"
       /\ \A p \in 0 .. max_pos :
            /\ SameNumber(ret.probs[p], exact[p])
            /\ SameNumber(ret.probs[p], <<IF p = target THEN 1 ELSE 0, 1>>)

\* two trials of two steps of 2 on a line the second step is clamped on
C4_Witness ==
  /\ pc = "done"
  /\ DOMAIN move_probs = {2}
  /\ trials = 2
  /\ n_steps = 2
  /\ max_pos = 3
  /\ ret.kind = "probs"
  /\ ret.probs[3] = <<2, 2>>

\* C6: simulate with trials >= 1 returns a mapping over exactly 0..max_pos,
\* each value count/trials with a count in Nat, the counts adding up to
\* trials: no final position is tallied outside 0..max_pos.
C6_SimulateIsDistribution ==
  /\ BagToSet(counts) \subseteq 0 .. max_pos
  /\ BagCardinality(counts) = trial
  /\ (pc = "done" /\ trials >= 1) =>
       /\ err = "none"
       /\ ret.kind = "probs"
       /\ DOMAIN ret.probs = 0 .. max_pos
       /\ \A p \in 0 .. max_pos :
            /\ ret.probs[p][1] \in Nat
            /\ ret.probs[p][1] = CopiesIn(p, counts)
            /\ ret.probs[p][2] = trials
       /\ NumSum(ret.probs) = trials

\* two trials that ended at different positions, one of them tallied twice
\* as often as the other is not
C6_Witness ==
  /\ pc = "done"
  /\ trials >= 2
  /\ ret.kind = "probs"
  /\ Cardinality({ p \in 0 .. max_pos : ret.probs[p][1] > 0 }) >= 2

\* C8: simulate with trials = 0 fails with an InvalidArgument error, not on
\* the division by the trial count.
C8_ZeroTrialsRejected ==
  (pc = "done" /\ trials = 0) => (err = "InvalidArgument" /\ ret = NoRet)

\* C9: every step of run_single draws exactly twice, first for the movement
\* and then for the perception, whatever the label and the outcomes; nothing
\* else draws and the source is never reset, so that simulate(n, trials) has
\* drawn 2*n*trials values when it is done (run_single(n), one trial: 2*n).
C9_TwoDrawsPerStep ==
  [][/\ step' = step + 1 =>
          /\ rng' = rng + 2
          /\ drew'.move = rng + 1
          /\ drew'.sense = rng + 2
     /\ rng' # rng => (pc = "loop" /\ step' = step + 1 /\ rng' > rng)
     /\ (pc' = "loop" /\ n_steps >= 0) => rng' = 2 * (trial' * n_steps + step')
     /\ (pc' = "done" /\ n_steps >= 0) => rng' = 2 * n_steps * trials]_vars

\* the last step of the second of two trials of two steps: eight draws, a
\* wall and a window met and a label misperceived in this trial
C9_Witness ==
  /\ pc = "loop"
  /\ trials = 2
  /\ trial = 1
  /\ n_steps = 2
  /\ step = 2
  /\ rng = 8
  /\ drew = [move |-> 7, sense |-> 8]
  /\ \E i \in 1 .. Len(trace) : trace[i][2] # trace[i][3]
  /\ \E i, j \in 1 .. Len(trace) : trace[i][2] = "wall" /\ trace[j][2] = "window"

\* C2: on the same draws, the simulator visits the same positions, tallies
\* the same final positions and returns the same distribution whatever its
\* sensor model; the perceived labels alone may differ.
C2_PerceptionNeverMoves ==
  /\ other.used
  /\ other.rng = rng
  /\ other.pos = pos
  /\ Positions(other.trace) = Positions(trace)
  /\ other.counts = counts
  /\ pc = "done" => other.ret = ret

\* the second trial's last step is over: two sensor models perceived a
\* square differently, the robot has moved and a final position is tallied
C2_Witness ==
  /\ pc = "loop"
  /\ trial = 1
  /\ step = n_steps
  /\ <<other.p_correct_wall, other.p_correct_window>>
       # <<p_correct_wall, p_correct_window>>
  /\ Perceived(other.trace) # Perceived(trace)
  /\ pos > 0
  /\ BagCardinality(other.counts) = 1
====
